---------------------------- MODULE Spec2Model ----------------------------
(***************************************************************************)
(* Refresh orchestration of tle/util/cache_system2.py: ContestCache,       *)
(* ProblemCache, ProblemsetCache, RatingChangesCache and RanklistCache.    *)
(*                                                                         *)
(* All coroutines run on one asyncio event loop, so a step of the model is *)
(* the code a coroutine runs between two suspension points (a remote call, *)
(* a wait on a held lock, a sleep, a wait for an event).                   *)
(***************************************************************************)
EXTENDS Integers, Sequences, FiniteSets, TLC

(***************************************************************************)
(* Bounds of the model.                                                    *)
(***************************************************************************)
MaxContests == 3     \* contest ids are 1..MaxContests
MaxListLen == 2      \* longest contest list the remote service answers with
NumCallers == 2      \* coroutines calling reload_now()
NumPsCallers == 1    \* coroutines calling update_for_contest / update_for_all
NumLiveCallers == 1  \* coroutines calling reload_now() under fair scheduling
MaxLoops == 2        \* loops of one monitor task the model can hold at a time

(***************************************************************************)
(* Program constants.                                                      *)
(***************************************************************************)
_NORMAL_CONTEST_RELOAD_DELAY == 30 * 60
_EXCEPTION_CONTEST_RELOAD_DELAY == 5 * 60
_ACTIVE_CONTEST_RELOAD_DELAY == 5 * 60
_ACTIVATE_BEFORE == 20 * 60
_RUNNING_PHASES == {"CODING", "PENDING_SYSTEM_TEST", "SYSTEM_TEST"}
PHASES == {"BEFORE", "CODING", "PENDING_SYSTEM_TEST", "SYSTEM_TEST", "FINISHED"}
PhaseKeys == PHASES \cup {"_RUNNING"}

\* Python's None for the optional number next_delay, and a held number.
None == <<>>
Some(x) == <<x>>
\* reload_exception = None, and the faults a refresh body can raise.
NoException == "None"
Faults == {"CodeforcesApiError", "ClientError"}

Elems(s) == {s[j] : j \in 1..Len(s)}
Min(a, b) == IF a <= b THEN a ELSE b

VARIABLES
    now,                \* time.time()
    focus,              \* the cache whose coroutines the behaviour follows
    \* ---- the single-flight guard of ContestCache and ProblemCache
    reload_lock,        \* reload_lock of each cache (an asyncio.Lock)
    reload_exception,   \* reload_exception of each cache
    pc,                 \* position of each coroutine
    caller_cache,       \* the cache a pending reload_now() was called on
    caller_result,      \* how each caller's last reload_now() ended
    batch,              \* history: the reload_now() calls riding one manual refresh
    last_outcome,       \* history: how the last completed refresh body ended
    \* ---- ContestCache
    remote,             \* what cf.contest.list() answers at the moment
    db_contests,        \* contests persisted by conn.cache_contests
    contests,           \* ContestCache.contests
    contests_by_phase,  \* ContestCache.contests_by_phase
    contest_by_id,      \* ContestCache.contest_by_id
    contests_last_cache,\* ContestCache.contests_last_cache
    next_delay,         \* ContestCache.next_delay
    sleep_arg,          \* argument of the waiter's pending asyncio.sleep
    \* ---- ProblemCache
    remote_problems,    \* what cf.problemset.problems() answers at the moment
    db_problems,        \* problems persisted by conn.cache_problems
    problems,           \* ProblemCache.problems
    problem_by_name,    \* ProblemCache.problem_by_name
    \* ---- ProblemsetCache
    update_lock,        \* ProblemsetCache.update_lock (an asyncio.Lock)
    db_problemset,      \* problemsets persisted by conn.cache_problemset
    ps_local,           \* locals of each coroutine inside a ProblemsetCache body
    ps_done,            \* history: the 'updated' list of the scheduled cycle that just ended
    \* ---- RatingChangesCache
    db_rating_changes,  \* rating changes persisted by conn.save_rating_changes
    handle_rating_cache,\* RatingChangesCache.handle_rating_cache
    rc_monitored,       \* RatingChangesCache.monitored_contests
    rc_mon,             \* RatingChangesCache._monitor_task: position, pending stop
    rc_local,           \* locals of _fetch inside the monitor's body
    rc_op,              \* the manual fetch_* operation in progress and _fetch's locals
    \* ---- RanklistCache
    ranklist_by_contest,\* RanklistCache.ranklist_by_contest
    rl_monitored,       \* RanklistCache.monitored_contests
    rl_mon,             \* RanklistCache._monitor_task: position, pending stop
    rl_local,           \* locals of _fetch inside the monitor's body
    rl_done,            \* history: what the monitor cycle that ended last fetched
    \* ---- ContestListRefresh
    coord_pc            \* position of the two event-driven coordinators

guardVars == <<reload_lock, reload_exception, pc, caller_cache, caller_result,
               batch, last_outcome>>
contestVars == <<remote, db_contests, contests, contests_by_phase, contest_by_id,
                 contests_last_cache,
                 next_delay, sleep_arg>>
problemVars == <<remote_problems, db_problems, problems, problem_by_name>>
psetVars == <<update_lock, db_problemset, ps_local, ps_done>>
ratingVars == <<db_rating_changes, handle_rating_cache, rc_monitored, rc_mon, rc_local,
                rc_op>>
ranklistVars == <<ranklist_by_contest, rl_monitored, rl_mon, rl_local, rl_done>>
reactVars == <<ratingVars, ranklistVars>>
env == <<now, focus>>
vars == <<env, guardVars, contestVars, problemVars, psetVars, reactVars, coord_pc>>

(***************************************************************************)
(* Contests.                                                               *)
(***************************************************************************)
Contest(i, ph, start, dur) ==
    [id |-> i, phase |-> ph, startTimeSeconds |-> start, durationSeconds |-> dur]

end_time(contest) == contest.startTimeSeconds + contest.durationSeconds

\* The sort key of line 113: (contest.startTimeSeconds, contest.id).
SortKeyLess(a, b) ==
    \/ a.startTimeSeconds < b.startTimeSeconds
    \/ a.startTimeSeconds = b.startTimeSeconds /\ a.id < b.id

RECURSIVE InsertSorted(_, _)
InsertSorted(c, s) ==
    IF s = <<>> THEN <<c>>
    ELSE IF SortKeyLess(c, Head(s)) THEN <<c>> \o s
    ELSE <<Head(s)>> \o InsertSorted(c, Tail(s))

\* A sort that leaves the list as it came.
LeftAsFetched(s) == s

RECURSIVE SortContestsFrom(_, _)
SortContestsFrom(s, acc) ==
    IF s = <<>> THEN acc ELSE SortContestsFrom(Tail(s), InsertSorted(Head(s), acc))

SortContests(s) == SortContestsFrom(s, <<>>)

\* Lines 119-126: one bucket per phase, plus _RUNNING.
InRunningPhase(contest) == contest.phase \in _RUNNING_PHASES

BuildByPhase(sorted) ==
    [p \in PhaseKeys |->
        IF p = "_RUNNING"
        THEN SelectSeq(sorted, InRunningPhase)
        ELSE SelectSeq(sorted, LAMBDA c : c.phase = p)]

RECURSIVE BuildByIdFrom(_, _)
BuildByIdFrom(s, acc) ==
    IF s = <<>> THEN acc
    ELSE BuildByIdFrom(Tail(s),
            [i \in DOMAIN acc \cup {Head(s).id} |->
                IF i = Head(s).id THEN Head(s) ELSE acc[i]])

BuildById(sorted) == BuildByIdFrom(sorted, <<>>)

\* Lines 131-139: one BEFORE contest's turn of the loop.
BeforeStep(delay, contest, t) ==
    LET at == contest.startTimeSeconds - _ACTIVATE_BEFORE
    IN  IF at > t
        THEN Min(delay, at - t)
        ELSE Min(contest.startTimeSeconds - t, _ACTIVE_CONTEST_RELOAD_DELAY)

RECURSIVE BeforeLoop(_, _, _)
BeforeLoop(before, delay, t) ==
    IF before = <<>> THEN delay
    ELSE BeforeLoop(Tail(before), BeforeStep(delay, Head(before), t), t)

\* A delay computed without lines 141-143: a running contest changes nothing.
DelayIgnoresRunning(by_phase, t) ==
    BeforeLoop(by_phase["BEFORE"], _NORMAL_CONTEST_RELOAD_DELAY, t)

\* Lines 128-143.
ComputeDelay(by_phase, t) ==
    LET d == BeforeLoop(by_phase["BEFORE"], _NORMAL_CONTEST_RELOAD_DELAY, t)
    IN  IF by_phase["_RUNNING"] # <<>>
        THEN Min(d, _ACTIVE_CONTEST_RELOAD_DELAY)
        ELSE d


(***************************************************************************)
(* The remote service's contest list: what cf.contest.list() can answer.   *)
(***************************************************************************)
T0 == 2000 * 1000

\* Shapes a contest can have at the remote service, apart from its id.
BeforeStarts == {T0 + 180, T0 + 600, T0 + 1500, T0 + 2400}
ContestShapes ==
    {[phase |-> "BEFORE", startTimeSeconds |-> s, durationSeconds |-> 7200] :
        s \in BeforeStarts}
    \cup {[phase |-> "CODING", startTimeSeconds |-> T0 - 600, durationSeconds |-> 7200],
          [phase |-> "FINISHED", startTimeSeconds |-> T0 - 10800, durationSeconds |-> 7200]}

\* Every list of at most n contests with distinct ids in ids, in every order.
ContestLists(ids, shapes, n) ==
    UNION {
        UNION {
            { [k \in 1..m |-> Contest(order[k], sh[order[k]].phase,
                                      sh[order[k]].startTimeSeconds,
                                      sh[order[k]].durationSeconds)] :
                sh \in [{order[k] : k \in 1..m} -> shapes] } :
            order \in {o \in [1..m -> ids] :
                          \A a, b \in 1..m : a # b => o[a] # o[b]} } :
        m \in 0..n }

\* The contest lists the remote service moves between while callers and timers run.
ContestFeeds ==
    { << Contest(2, "BEFORE", T0 + 600, 7200), Contest(1, "CODING", T0 - 600, 7200) >> }

(***************************************************************************)
(* Problems of the remote catalog: what cf.problemset.problems() answers.  *)
(***************************************************************************)
Problem(c, i, n, meta) ==
    [contestId |-> c, index |-> i, name |-> n, has_metadata |-> meta]

ProblemFeeds ==
    { << Problem(1, "A", "Sum", TRUE), Problem(2, "A", "Sum", TRUE),
         Problem(1, "B", "Tree", FALSE) >> }

(***************************************************************************)
(* Coroutines.                                                             *)
(***************************************************************************)
ReloadCaches == {"ContestCache", "ProblemCache"}
Callers == 1..NumCallers
PsCallers == 1..NumPsCallers
TaskProc(k) == <<k, 0>>          \* the loop of the cache's _update_task
RunProc(k) == <<k, 1>>           \* the cache's run()
CallerProc(i) == <<"caller", i>> \* a coroutine calling reload_now()
LockedCaches == ReloadCaches \cup {"ProblemsetCache"}
Procs ==
    {TaskProc(k) : k \in LockedCaches} \cup {RunProc(k) : k \in ReloadCaches}
    \cup {CallerProc(i) : i \in Callers}
IsCaller(p) == p[1] = "caller"

(***************************************************************************)
(* asyncio.Lock: acquire() takes a lock that is free and has no waiter,    *)
(* and queues otherwise; release() frees it and wakes the first waiter,    *)
(* which takes the lock when the event loop runs it; locked() reads the    *)
(* flag.                                                                   *)
(***************************************************************************)
FreeLock == [locked |-> FALSE, waiters |-> <<>>]
\* A lock that never makes its caller wait.
NeverWaits(l) == TRUE
CanAcquireNow(l) == ~l.locked /\ l.waiters = <<>>
CanResume(l, p) == ~l.locked /\ l.waiters # <<>> /\ Head(l.waiters) = p
Acquired(l) == [l EXCEPT !.locked = TRUE]
Queued(l, p) == [l EXCEPT !.waiters = Append(@, p)]
Resumed(l) == [locked |-> TRUE, waiters |-> Tail(l.waiters)]
\* A body that leaves without releasing the lock.
StaysLocked(l) == l
Released(l) == [l EXCEPT !.locked = FALSE]

(***************************************************************************)
(* History of reload_now() calls: the calls made on an idle cache and      *)
(* while the refresh the first of them triggered is in flight.             *)
(***************************************************************************)
NoBatch == [members |-> {}, returned |-> {}, fetches |-> 0, outcome |-> "-"]
InFlight(b) == b.members # {} /\ b.outcome = "-"

\* Caller i starts a new call: it leaves the batches of its earlier calls.
Forget(b, i) ==
    IF i \in b.returned /\ b.members \ {i} # {}
    THEN [b EXCEPT !.members = @ \ {i}, !.returned = @ \ {i}]
    ELSE IF i \in b.returned THEN NoBatch ELSE b

\* Coroutine p starts the remote fetch of cache k's refresh body.
FetchStarted(b, p) ==
    IF IsCaller(p) /\ p[2] \in b.members THEN [b EXCEPT !.fetches = @ + 1] ELSE b

\* The refresh body run by p ended with outcome o.
FetchEnded(b, p, o) ==
    IF InFlight(b) /\ IsCaller(p) /\ p[2] \in b.members
    THEN [b EXCEPT !.outcome = o] ELSE b

CallReturned(b, i) ==
    IF i \in b.members THEN [b EXCEPT !.returned = @ \cup {i}] ELSE b

(***************************************************************************)
(* ContestCache.                                                           *)
(***************************************************************************)
\* _update (lines 111-152): what it publishes and the delay it returns.
Update(cs, t) ==
    LET sorted == SortContests(cs)
        by_phase == BuildByPhase(sorted)
    IN  [contests |-> sorted, contests_by_phase |-> by_phase,
         contest_by_id |-> BuildById(sorted), delay |-> ComputeDelay(by_phase, t)]

\* event_sys.dispatch(ContestListRefresh): the coordinators waiting for it wake.
Dispatched(cp) ==
    [c \in DOMAIN cp |-> IF cp[c] = "waiting" THEN "signalled" ELSE cp[c]]

\* Lines 145-150: the snapshot and both indexes are replaced and the event sent.
Publish(u) ==
    /\ contests' = u.contests
    /\ contests_by_phase' = u.contests_by_phase
    /\ contest_by_id' = u.contest_by_id
    /\ contests_last_cache' = now
    /\ coord_pc' = Dispatched(coord_pc)

\* reload_now, line 59: reloading = self.reload_lock.locked()
Reloading(l) == l.locked

\* A task that leaves the recorded error in place after a success.
KeepsException(ex) == ex

\* _update_task, line 95, after a body that did not raise.
ExceptionAfterSuccess(ex) == NoException

\* _update_task_exception_handler, line 103.
ExceptionAfterFault(ex) == ex

\* A handler that leaves the delay of the last successful refresh in place.
DelayLeftAlone == next_delay

\* _update_task_exception_handler, line 104.
DelayAfterFault == Some(_EXCEPTION_CONTEST_RELOAD_DELAY)

(***************************************************************************)
(* The single-flight guard: the refresh body under reload_lock, run by the *)
(* scheduled task or, through manual_trigger(), by a reload_now() caller.  *)
(***************************************************************************)
CacheOf(p) == IF IsCaller(p) THEN caller_cache[p[2]] ELSE p[1]

\* async with self.reload_lock, on entry to the body (lines 93, 201).
EnterBody(p, k, bs) ==
    IF CanAcquireNow(reload_lock[k])
    THEN /\ reload_lock' = [reload_lock EXCEPT ![k] = Acquired(@)]
         /\ pc' = [pc EXCEPT ![p] = "fetch"]
         /\ batch' = [bs EXCEPT ![k] = FetchStarted(@, p)]
    ELSE /\ reload_lock' = [reload_lock EXCEPT ![k] = Queued(@, p)]
         /\ pc' = [pc EXCEPT ![p] = "acquire"]
         /\ batch' = bs

\* The body ends in p with outcome o: the lock is released, reload_exception
\* is set to ex, and p goes back to the waiter (the task) or to reload_now's
\* check of reload_exception (lines 68-69, 185-186).
LeaveBody(p, k, ex, o) ==
    /\ reload_lock' = [reload_lock EXCEPT ![k] = Released(@)]
    /\ reload_exception' = [reload_exception EXCEPT ![k] = ex]
    /\ last_outcome' = [last_outcome EXCEPT ![k] = o]
    /\ IF IsCaller(p)
       THEN /\ pc' = [pc EXCEPT ![p] = "idle"]
            /\ caller_result' = [caller_result EXCEPT ![p[2]] = reload_exception'[k]]
            /\ caller_cache' = [caller_cache EXCEPT ![p[2]] = "-"]
            /\ batch' = [batch EXCEPT ![k] = CallReturned(FetchEnded(@, p, o), p[2])]
       ELSE /\ pc' = [pc EXCEPT ![p] = "wait"]
            /\ batch' = [batch EXCEPT ![k] = FetchEnded(@, p, o)]
            /\ UNCHANGED <<caller_result, caller_cache>>

\* The waiter's sleep (or fixed delay) has elapsed: the task runs its body.
TimerFire(k) ==
    /\ pc[TaskProc(k)] = "wait"
    /\ EnterBody(TaskProc(k), k, batch)
    /\ UNCHANGED <<env, reload_exception, caller_cache, caller_result, last_outcome,
                   contestVars, problemVars, psetVars, reactVars, coord_pc>>

\* A coroutine queued on the lock is woken by release() and takes the lock.
BodyResume(p) ==
    LET k == CacheOf(p)
    IN  /\ pc[p] = "acquire"
        /\ k \in ReloadCaches
        /\ p # RunProc(k)
        /\ CanResume(reload_lock[k], p)
        /\ reload_lock' = [reload_lock EXCEPT ![k] = Resumed(@)]
        /\ pc' = [pc EXCEPT ![p] = "fetch"]
        /\ batch' = [batch EXCEPT ![k] = FetchStarted(@, p)]
        /\ UNCHANGED <<env, reload_exception, caller_cache, caller_result,
                       last_outcome, contestVars, problemVars, psetVars, reactVars, coord_pc>>

\* reload_now() (lines 57-66, 174-183) up to its first suspension.
ReloadNow(i, k) ==
    LET p == CallerProc(i)
        forgot == [kk \in ReloadCaches |-> Forget(batch[kk], i)]
        joined == [forgot EXCEPT ![k] =
                     IF CanAcquireNow(reload_lock[k])
                     THEN [NoBatch EXCEPT !.members = {i}]
                     ELSE IF InFlight(@) THEN [@ EXCEPT !.members = @ \cup {i}]
                     ELSE @]
    IN  /\ pc[p] = "idle"
        /\ caller_cache' = [caller_cache EXCEPT ![i] = k]
        /\ caller_result' = [caller_result EXCEPT ![i] = "-"]
        /\ IF Reloading(reload_lock[k])
           THEN /\ reload_lock' = [reload_lock EXCEPT ![k] = Queued(@, p)]
                /\ pc' = [pc EXCEPT ![p] = "ride"]
                /\ batch' = joined
           ELSE EnterBody(p, k, joined)
        /\ UNCHANGED <<env, reload_exception, last_outcome, contestVars,
                       problemVars, psetVars, reactVars, coord_pc>>

\* reload_now() (lines 63-69) after the wait on the held lock: the lock is
\* taken and released at once, then reload_exception decides how the call ends.
RideResume(i) ==
    LET p == CallerProc(i)
        k == caller_cache[i]
    IN  /\ pc[p] = "ride"
        /\ CanResume(reload_lock[k], p)
        /\ reload_lock' = [reload_lock EXCEPT ![k] = Released(Resumed(@))]
        /\ pc' = [pc EXCEPT ![p] = "idle"]
        /\ caller_result' = [caller_result EXCEPT ![i] = reload_exception[k]]
        /\ caller_cache' = [caller_cache EXCEPT ![i] = "-"]
        /\ batch' = [batch EXCEPT ![k] = CallReturned(@, i)]
        /\ UNCHANGED <<env, reload_exception, last_outcome, contestVars,
                       problemVars, psetVars, reactVars, coord_pc>>

\* run() finds the lock taken and queues on it (lines 84, 189).
RunQueue(k) ==
    /\ pc[RunProc(k)] = "off"
    /\ ~CanAcquireNow(reload_lock[k])
    /\ reload_lock' = [reload_lock EXCEPT ![k] = Queued(@, RunProc(k))]
    /\ pc' = [pc EXCEPT ![RunProc(k)] = "acquire"]
    /\ UNCHANGED <<env, reload_exception, caller_cache, caller_result, batch, last_outcome,
                   contestVars, problemVars, psetVars, reactVars, coord_pc>>

\* run() holds the lock for _try_disk, which never suspends, and starts the task.
RunUnderLock(k) ==
    /\ \/ pc[RunProc(k)] = "off" /\ CanAcquireNow(reload_lock[k])
          /\ UNCHANGED reload_lock
       \/ pc[RunProc(k)] = "acquire" /\ CanResume(reload_lock[k], RunProc(k))
          /\ reload_lock' = [reload_lock EXCEPT ![k] = Released(Resumed(@))]
    /\ pc[TaskProc(k)] = "off"
    /\ pc' = [pc EXCEPT ![RunProc(k)] = "done", ![TaskProc(k)] = "wait"]
    /\ UNCHANGED <<env, reload_exception, caller_cache, caller_result, batch,
                   last_outcome>>

\* ContestCache.run (lines 53-55) with _try_disk (lines 83-89).
ContestCacheRun ==
    /\ RunUnderLock("ContestCache")
    /\ IF db_contests = <<>>
       THEN UNCHANGED <<contests, contests_by_phase, contest_by_id,
                        contests_last_cache, coord_pc>>
       ELSE Publish(Update(db_contests, now))
    /\ sleep_arg' = next_delay
    /\ UNCHANGED <<remote, db_contests, next_delay, problemVars, psetVars, reactVars>>

\* _update_task (lines 92-95) from the answer of cf.contest.list() on.
ContestFetchOK(p) ==
    LET u == Update(remote, now)
    IN  /\ pc[p] = "fetch"
        /\ CacheOf(p) = "ContestCache"
        /\ db_contests' = u.contests
        /\ Publish(u)
        /\ next_delay' = Some(u.delay)
        /\ sleep_arg' = IF IsCaller(p) THEN sleep_arg ELSE next_delay'
        /\ LeaveBody(p, "ContestCache",
                     ExceptionAfterSuccess(reload_exception["ContestCache"]), NoException)
        /\ UNCHANGED <<env, remote, problemVars, psetVars, reactVars>>

\* cf.contest.list() raises: _update_task_exception_handler (lines 102-104).
ContestFetchFail(p, ex) ==
    /\ pc[p] = "fetch"
    /\ CacheOf(p) = "ContestCache"
    /\ next_delay' = DelayAfterFault
    /\ sleep_arg' = IF IsCaller(p) THEN sleep_arg ELSE next_delay'
    /\ LeaveBody(p, "ContestCache", ExceptionAfterFault(ex), ex)
    /\ UNCHANGED <<env, remote, db_contests, contests, contests_by_phase,
                   contest_by_id, contests_last_cache, problemVars, psetVars, reactVars, coord_pc>>

(***************************************************************************)
(* ProblemCache.                                                           *)
(***************************************************************************)
\* keep() of lines 218-220, against ContestCache's current contest_by_id.
Keep(problem) ==
    problem.contestId \in DOMAIN contest_by_id /\ problem.has_metadata

\* A dict comprehension {problem.name: problem ...}: the last problem of a name
\* stays, at the place of the first.
RECURSIVE ByNameFrom(_, _)
ByNameFrom(s, acc) ==
    IF s = <<>> THEN acc
    ELSE ByNameFrom(Tail(s),
            [n \in DOMAIN acc \cup {Head(s).name} |->
                IF n = Head(s).name THEN Head(s) ELSE acc[n]])

ByName(s) == ByNameFrom(s, <<>>)

RECURSIVE NamesInOrder(_, _)
NamesInOrder(s, acc) ==
    IF s = <<>> THEN acc
    ELSE NamesInOrder(Tail(s),
            IF \E j \in 1..Len(acc) : acc[j] = Head(s).name
            THEN acc ELSE Append(acc, Head(s).name))

\* list(problem_by_name.values()), line 229.
DictValues(s) ==
    LET names == NamesInOrder(s, <<>>)
    IN  [j \in 1..Len(names) |-> ByName(s)[names[j]]]

\* ProblemCache.run (lines 170-172) with _try_disk (lines 188-196).
ProblemCacheRun ==
    /\ RunUnderLock("ProblemCache")
    /\ IF db_problems = <<>>
       THEN UNCHANGED <<problems, problem_by_name>>
       ELSE /\ problems' = db_problems
            /\ problem_by_name' = ByName(db_problems)
    /\ UNCHANGED <<remote_problems, db_problems, contestVars, psetVars, reactVars, coord_pc>>

\* _update_task (lines 200-203) from the answer of cf.problemset.problems() on,
\* with _update (lines 213-234).
ProblemFetchOK(p) ==
    LET filtered == SelectSeq(remote_problems, Keep)
    IN  /\ pc[p] = "fetch"
        /\ CacheOf(p) = "ProblemCache"
        /\ problems' = DictValues(filtered)
        /\ problem_by_name' = ByName(filtered)
        /\ db_problems' = problems'
        /\ LeaveBody(p, "ProblemCache",
                     ExceptionAfterSuccess(reload_exception["ProblemCache"]), NoException)
        /\ UNCHANGED <<env, remote_problems, contestVars, psetVars, reactVars, coord_pc>>

\* cf.problemset.problems() raises: _update_task_exception_handler (lines 206-207).
ProblemFetchFail(p, ex) ==
    /\ pc[p] = "fetch"
    /\ CacheOf(p) = "ProblemCache"
    /\ LeaveBody(p, "ProblemCache", ExceptionAfterFault(ex), ex)
    /\ UNCHANGED <<env, problemVars, contestVars, psetVars, reactVars, coord_pc>>

(***************************************************************************)
(* ProblemsetCache.                                                        *)
(***************************************************************************)
_MONITOR_PERIOD_SINCE_CONTEST_END == 14 * 24 * 60 * 60

ContestIds == 1..MaxContests
ProblemIndices == {"A", "B"}
PsProblem(c, i, r) == [contestId |-> c, index |-> i, rating |-> r]
PsTask == TaskProc("ProblemsetCache")
PsProcs == {PsTask} \cup {CallerProc(i) : i \in Callers}

\* What cf.contest.standings(contest_id=c) can answer as the problemset.
PsetAnswers(c) ==
    { << PsProblem(c, "A", ra), PsProblem(c, "B", rb) >> :
        ra \in {None, Some(800)}, rb \in {None, Some(800)} }

\* The persistent store keeps, per contest, a rating for each saved index.
NoProblemset == <<>>
SavedRated(saved) == {i \in DOMAIN saved : saved[i] # None}

\* conn.cache_problemset: each problem replaces the row of its (contest, index).
RECURSIVE CacheProblemset(_, _)
CacheProblemset(db, probs) ==
    IF probs = <<>> THEN db
    ELSE LET pr == Head(probs)
             row == [i \in DOMAIN db[pr.contestId] \cup {pr.index} |->
                        IF i = pr.index THEN pr.rating ELSE db[pr.contestId][i]]
         IN  CacheProblemset([db EXCEPT ![pr.contestId] = row], Tail(probs))

\* conn.clear_problemset(contest_id) and conn.clear_problemset().
ClearProblemset(db, c) == [db EXCEPT ![c] = NoProblemset]
ClearAllProblemsets(db) == [c \in DOMAIN db |-> NoProblemset]

IdleLocal == [op |-> "-", cid |-> 0, todo_new |-> <<>>, todo_refetch |-> <<>>,
              new_problems |-> <<>>, updated_problems |-> <<>>]

\* Lines 298-308: the scheduled refresh decides per contest.
TooOld(contest, t) == t > end_time(contest) + _MONITOR_PERIOD_SINCE_CONTEST_END

RECURSIVE PlanFrom(_, _, _, _)
PlanFrom(cs, t, db, acc) ==
    IF cs = <<>> THEN acc
    ELSE LET c == Head(cs)
             saved == db[c.id]
             next ==
                IF TooOld(c, t) THEN acc
                ELSE IF DOMAIN saved = {}
                THEN [acc EXCEPT !.todo_new = Append(@, c.id)]
                ELSE IF Cardinality(SavedRated(saved)) < Cardinality(DOMAIN saved)
                THEN [acc EXCEPT !.todo_refetch = Append(@, <<c.id, SavedRated(saved)>>)]
                ELSE acc
         IN  PlanFrom(Tail(cs), t, db, next)

\* Line 295: a forced fetch takes every contest as new.
ForcedPlan(cs, acc) == [acc EXCEPT !.todo_new = [j \in 1..Len(cs) |-> cs[j].id]]

\* A refresh that takes every re-fetched problem as updated.
AllRefetched(probs, rated_problem_idx) == probs

\* Lines 314-315: what of a re-fetched problemset counts as updated.
UpdatedOf(probs, rated_problem_idx) ==
    SelectSeq(probs, LAMBDA pr : pr.rating # None /\ pr.index \notin rated_problem_idx)

\* The body from its first line under update_lock up to its first fetch.
StartedLocal(op, cid) ==
    LET base == [IdleLocal EXCEPT !.op = op, !.cid = cid]
        finished == contests_by_phase["FINISHED"]
    IN  CASE op = "task" -> PlanFrom(finished, now, db_problemset, base)
          [] op = "all" -> ForcedPlan(finished, base)
          [] op = "contest" -> ForcedPlan(<<contest_by_id[cid]>>, base)

\* One answer of _fetch_for_contest (lines 319-326): [] on CodeforcesApiError.
FetchedLocal(j, answer) ==
    IF j.todo_new # <<>>
    THEN [j EXCEPT !.todo_new = Tail(@), !.new_problems = @ \o answer]
    ELSE [j EXCEPT !.todo_refetch = Tail(@),
                   !.updated_problems = @ \o UpdatedOf(answer, Head(j.todo_refetch)[2])]

NextContestId(j) ==
    IF j.todo_new # <<>> THEN Head(j.todo_new) ELSE Head(j.todo_refetch)[1]

\* What the body writes once its fetches are over (lines 266-267, 275-276, 285).
SavedBy(j, db) ==
    CASE j.op = "task" -> CacheProblemset(db, j.new_problems \o j.updated_problems)
      [] j.op = "all" -> CacheProblemset(ClearAllProblemsets(db), j.new_problems)
      [] j.op = "contest" -> CacheProblemset(ClearProblemset(db, j.cid), j.new_problems)

\* The body is over in p: the lock is released and p is back where it came from.
PsLeave(p, held, j) ==
    /\ update_lock' = Released(held)
    /\ ps_local' = [ps_local EXCEPT ![p] = IdleLocal]
    /\ ps_done' = IF p = PsTask THEN j.updated_problems ELSE <<>>
    /\ IF IsCaller(p)
       THEN /\ pc' = [pc EXCEPT ![p] = "idle"]
            /\ caller_cache' = [caller_cache EXCEPT ![p[2]] = "-"]
       ELSE /\ pc' = [pc EXCEPT ![p] = "wait"]
            /\ UNCHANGED caller_cache

\* p stays in the body at position at, with locals j.
PsStay(p, at, j, l) ==
    /\ update_lock' = l
    /\ ps_local' = [ps_local EXCEPT ![p] = j]
    /\ ps_done' = <<>>
    /\ pc' = [pc EXCEPT ![p] = at]
    /\ IF IsCaller(p)
       THEN caller_cache' = [caller_cache EXCEPT ![p[2]] = "ProblemsetCache"]
       ELSE UNCHANGED caller_cache

\* With the lock held and locals j: fetch the next contest, or save and leave.
PsProceed(p, j, held) ==
    IF j.todo_new = <<>> /\ j.todo_refetch = <<>>
    THEN /\ db_problemset' = SavedBy(j, db_problemset)
         /\ PsLeave(p, held, j)
    ELSE /\ PsStay(p, "fetch", j, held)
         /\ UNCHANGED db_problemset

\* update_for_contest with an id ContestCache does not hold: get_contest raises
\* ContestNotFound and the lock is released.
PsBegin(p, op, cid, held) ==
    IF op = "contest" /\ cid \notin DOMAIN contest_by_id
    THEN /\ PsLeave(p, held, IdleLocal)
         /\ UNCHANGED db_problemset
    ELSE PsProceed(p, StartedLocal(op, cid), held)

\* async with self.update_lock (lines 263, 272, 282).
PsEnter(p, op, cid) ==
    IF CanAcquireNow(update_lock)
    THEN PsBegin(p, op, cid, Acquired(update_lock))
    ELSE /\ PsStay(p, "acquire", [IdleLocal EXCEPT !.op = op, !.cid = cid],
                   Queued(update_lock, p))
         /\ UNCHANGED db_problemset

PsFrame ==
    UNCHANGED <<env, reload_lock, reload_exception, caller_result, batch,
                last_outcome, contestVars, problemVars, reactVars, coord_pc>>

\* ProblemsetCache.run (lines 255-259).
ProblemsetCacheRun ==
    /\ pc[PsTask] = "off"
    /\ pc' = [pc EXCEPT ![PsTask] = "wait"]
    /\ UNCHANGED <<caller_cache, psetVars>>
    /\ PsFrame

\* The fixed delay of _update_task has elapsed (lines 279-287).
PsTimerFire ==
    /\ pc[PsTask] = "wait"
    /\ PsEnter(PsTask, "task", 0)
    /\ PsFrame

\* update_for_contest(contest_id) is called (lines 261-268).
UpdateForContest(i, cid) ==
    /\ pc[CallerProc(i)] = "idle"
    /\ PsEnter(CallerProc(i), "contest", cid)
    /\ PsFrame

\* update_for_all() is called (lines 270-277).
UpdateForAll(i) ==
    /\ pc[CallerProc(i)] = "idle"
    /\ PsEnter(CallerProc(i), "all", 0)
    /\ PsFrame

\* A coroutine queued on update_lock is woken and starts its body.
PsResume(p) ==
    /\ pc[p] = "acquire"
    /\ CacheOf(p) = "ProblemsetCache"
    /\ CanResume(update_lock, p)
    /\ PsBegin(p, ps_local[p].op, ps_local[p].cid, Resumed(update_lock))
    /\ PsFrame

\* cf.contest.standings answers for the next contest of the batch.
PsFetchOK(p) ==
    /\ pc[p] = "fetch"
    /\ CacheOf(p) = "ProblemsetCache"
    /\ \E answer \in PsetAnswers(NextContestId(ps_local[p])) :
          PsProceed(p, FetchedLocal(ps_local[p], answer), update_lock)
    /\ PsFrame

\* cf.contest.standings raises CodeforcesApiError: the problemset is [].
PsFetchFail(p) ==
    /\ pc[p] = "fetch"
    /\ CacheOf(p) = "ProblemsetCache"
    /\ PsProceed(p, FetchedLocal(ps_local[p], <<>>), update_lock)
    /\ PsFrame

(***************************************************************************)
(* Scheduled tasks that are started and stopped (the two monitors).  A     *)
(* task is the loops that run for it, each with its position and whether   *)
(* a stop() waits for its iteration in progress to end.                    *)
(***************************************************************************)
Loops == 1..MaxLoops
LoopOff == [pc |-> "off", stop |-> FALSE]
LoopWaiting == [pc |-> "wait", stop |-> FALSE]
TaskOff == [n \in Loops |-> LoopOff]

\* The task has a loop: it is running.
Running(m) == \E n \in Loops : m[n].pc # "off"

\* The loops of m that are inside the body.
InMonitorBody(m) == {n \in Loops : m[n].pc = "fetch"}

\* A start() that begins one more loop, whether or not the task is running.
StartsAnother(m) ==
    IF \E n \in Loops : m[n].pc = "off"
    THEN [m EXCEPT ![CHOOSE n \in Loops : m[n].pc = "off"] = LoopWaiting]
    ELSE m

\* start(): begins the loop; on a running task no loop is added, the one
\* that runs goes on.
TaskStart(m) ==
    IF Running(m)
    THEN [n \in Loops |-> [m[n] EXCEPT !.stop = FALSE]]
    ELSE [m EXCEPT ![1] = LoopWaiting]

\* stop(): cancels the loop, after its current iteration if one is in progress.
TaskStop(m) ==
    [n \in Loops |-> IF m[n].pc = "fetch" THEN [m[n] EXCEPT !.stop = TRUE] ELSE LoopOff]

\* stop() called by loop n from inside its body, which then returns.
TaskStopSelf(m, n) == [TaskStop(m) EXCEPT ![n] = LoopOff]

\* The iteration in progress of loop n ends: back to the wait, unless stopped.
TaskAfterBody(m, n) ==
    [m EXCEPT ![n] = IF @.stop THEN LoopOff ELSE LoopWaiting]

\* The loop of an event-driven coordinator reaches its wait for the event.
CoordBegin(c) ==
    /\ coord_pc[c] = "created"
    /\ pc[RunProc("ContestCache")] = "done"
    /\ coord_pc' = [coord_pc EXCEPT ![c] = "waiting"]
    /\ UNCHANGED <<env, guardVars, contestVars, problemVars, psetVars, reactVars>>

Ids(s) == {s[j].id : j \in 1..Len(s)}

(***************************************************************************)
(* RatingChangesCache.                                                     *)
(***************************************************************************)
DEFAULT_RATING == 1500
_RATED_DELAY == 36 * 60 * 60

RatingChange(c, h, old, new) ==
    [contestId |-> c, handle |-> h, oldRating |-> old, newRating |-> new]

\* The rating changes of contest c, once the remote service has them.
ChangesOf(c) ==
    IF c % 2 = 1
    THEN << RatingChange(c, "a", 1500, 1500 + 10 * c),
            RatingChange(c, "b", 1500, 1500 - 5 * c) >>
    ELSE << RatingChange(c, "a", 1490, 1490 + 10 * c) >>

\* What cf.contest.ratingChanges(contest_id=c) can answer.
RatingAnswers(c) == {<<>>, ChangesOf(c)}

\* conn.has_rating_changes_saved(contest_id), line 460.
has_rating_changes_saved(db, c) == \E ch \in db : ch.contestId = c

\* A check that takes every recently finished contest.
finished_recently(contest, t, db) ==
    contest.phase = "FINISHED" /\ t - end_time(contest) < _RATED_DELAY

\* Lines 382-386.
is_newly_finished_without_rating_changes(contest, t, db) ==
    /\ contest.phase = "FINISHED"
    /\ t - end_time(contest) < _RATED_DELAY
    /\ ~has_rating_changes_saved(db, contest.id)

\* conn.save_rating_changes: each change replaces the row of its (contest, handle).
save_rating_changes(db, changes) ==
    {ch \in db : ~\E n \in Elems(changes) :
                     n.contestId = ch.contestId /\ n.handle = ch.handle}
    \cup Elems(changes)

\* conn.get_all_rating_changes(): the rows, in an order the store chooses.
RECURSIVE RowOrders(_)
RowOrders(db) ==
    IF db = {} THEN {<<>>}
    ELSE UNION {{<<ch>> \o rest : rest \in RowOrders(db \ {ch})} : ch \in db}

\* A recomputation that keeps only a handle's last change.
OverwriteChange(cache, change) ==
    [h \in DOMAIN cache \cup {change.handle} |->
        IF h = change.handle
        THEN DEFAULT_RATING + change.newRating - change.oldRating
        ELSE cache[h]]

\* Lines 446-450: one change's turn of the loop.
AddChange(cache, change) ==
    LET delta == change.newRating - change.oldRating
    IN  IF change.handle \in DOMAIN cache
        THEN [cache EXCEPT ![change.handle] = @ + delta]
        ELSE [h \in DOMAIN cache \cup {change.handle} |->
                IF h = change.handle THEN DEFAULT_RATING + delta ELSE cache[h]]

RECURSIVE RefreshFrom(_, _)
RefreshFrom(changes, cache) ==
    IF changes = <<>> THEN cache
    ELSE RefreshFrom(Tail(changes), AddChange(cache, Head(changes)))

\* _refresh_handle_cache (lines 442-452) on the rows of db.
RefreshHandleCache(db) ==
    handle_rating_cache' \in {RefreshFrom(rows, <<>>) : rows \in RowOrders(db)}

\* Lines 466-470.
get_current_rating(cache, handle) ==
    IF handle \in DOMAIN cache THEN Some(cache[handle]) ELSE None

get_current_rating_or_default(cache, handle) ==
    IF handle \in DOMAIN cache THEN cache[handle] ELSE DEFAULT_RATING

\* _save_changes (lines 435-440), on the persisted changes db.
SaveChanges(db, changes) ==
    IF changes = <<>>
    THEN /\ db_rating_changes' = db
         /\ UNCHANGED handle_rating_cache
    ELSE /\ db_rating_changes' = save_rating_changes(db, changes)
         /\ RefreshHandleCache(db_rating_changes')

IdleFetch == [todo |-> <<>>, all_changes |-> <<>>]

RatingFrame ==
    UNCHANGED <<env, guardVars, contestVars, problemVars, psetVars, ranklistVars>>

\* RatingChangesCache.run (lines 350-355); the loop it starts runs later.
RatingChangesCacheRun ==
    /\ coord_pc["RatingChangesCache"] = "off"
    /\ RefreshHandleCache(db_rating_changes)
    /\ coord_pc' = [coord_pc EXCEPT !["RatingChangesCache"] = "created"]
    /\ UNCHANGED <<db_rating_changes, rc_monitored, rc_mon, rc_local, rc_op>>
    /\ RatingFrame

\* _update_task (lines 388-408), woken by ContestListRefresh.
RatingCoordinator ==
    LET check(c) == is_newly_finished_without_rating_changes(c, now, db_rating_changes)
        to_monitor == SelectSeq(contests_by_phase["FINISHED"], check)
    IN  /\ coord_pc["RatingChangesCache"] = "signalled"
        /\ coord_pc' = [coord_pc EXCEPT !["RatingChangesCache"] = "waiting"]
        /\ IF Ids(to_monitor) # Ids(rc_monitored)
           THEN IF to_monitor # <<>>
                THEN /\ rc_monitored' = to_monitor
                     /\ rc_mon' = TaskStart(TaskStop(rc_mon))
                ELSE /\ rc_monitored' = <<>>
                     /\ rc_mon' = TaskStop(rc_mon)
           ELSE UNCHANGED <<rc_monitored, rc_mon>>
        /\ UNCHANGED <<db_rating_changes, handle_rating_cache, rc_local, rc_op>>
        /\ RatingFrame

\* A _monitor_task without the filter of lines 412-413: every contest stays
\* monitored and is fetched again.
RatingMonitorKeeps(n) ==
    /\ rc_mon[n].pc = "wait"
    /\ rc_monitored # <<>>
    /\ rc_mon' = [rc_mon EXCEPT ![n].pc = "fetch"]
    /\ rc_local' = [rc_local EXCEPT ![n] =
                      [todo |-> [j \in 1..Len(rc_monitored) |-> rc_monitored[j].id],
                       all_changes |-> <<>>]]
    /\ UNCHANGED <<rc_monitored, db_rating_changes, handle_rating_cache, coord_pc, rc_op>>
    /\ RatingFrame

\* _monitor_task (lines 410-421) up to its first fetch.
RatingMonitorFire(n) ==
    LET check(c) == is_newly_finished_without_rating_changes(c, now, db_rating_changes)
        kept == SelectSeq(rc_monitored, check)
    IN  /\ rc_mon[n].pc = "wait"
        /\ rc_monitored' = kept
        /\ IF kept = <<>>
           THEN /\ rc_mon' = TaskStopSelf(rc_mon, n)
                /\ UNCHANGED rc_local
           ELSE /\ rc_mon' = [rc_mon EXCEPT ![n].pc = "fetch"]
                /\ rc_local' = [rc_local EXCEPT ![n] =
                                  [todo |-> [j \in 1..Len(kept) |-> kept[j].id],
                                   all_changes |-> <<>>]]
        /\ UNCHANGED <<db_rating_changes, handle_rating_cache, coord_pc, rc_op>>
        /\ RatingFrame

\* One turn of _fetch's loop (lines 425-432) ends with changes (none if the
\* call raised), and after the last one the changes are saved (line 421).
RatingFetched(n, changes) ==
    LET l == [todo |-> Tail(rc_local[n].todo),
              all_changes |-> rc_local[n].all_changes \o changes]
    IN  /\ rc_mon[n].pc = "fetch"
        /\ IF l.todo = <<>>
           THEN /\ SaveChanges(db_rating_changes, l.all_changes)
                /\ rc_mon' = TaskAfterBody(rc_mon, n)
                /\ rc_local' = [rc_local EXCEPT ![n] = IdleFetch]
           ELSE /\ rc_local' = [rc_local EXCEPT ![n] = l]
                /\ UNCHANGED <<db_rating_changes, handle_rating_cache, rc_mon>>
        /\ UNCHANGED <<rc_monitored, coord_pc, rc_op>>
        /\ RatingFrame

RatingFetchOK(n) ==
    /\ rc_mon[n].pc = "fetch"
    /\ \E changes \in RatingAnswers(Head(rc_local[n].todo)) : RatingFetched(n, changes)

\* cf.contest.ratingChanges raises CodeforcesApiError (lines 430-432).
RatingFetchFail(n) == RatingFetched(n, <<>>)

\* conn.clear_rating_changes(contest_id=c) and conn.clear_rating_changes().
clear_rating_changes(db, c) == {ch \in db : ch.contestId # c}
clear_all_rating_changes(db) == {}

NoOp == [op |-> "-", cid |-> 0, todo |-> <<>>, all_changes |-> <<>>]

\* What the operation clears once _fetch has returned (lines 361, 369).
ClearedBy(o, db) ==
    CASE o.op = "contest" -> clear_rating_changes(db, o.cid)
      [] o.op = "all" -> clear_all_rating_changes(db)
      [] o.op = "missing" -> db

\* The manual operation with locals o goes on: the next fetch of _fetch's
\* loop, or, when the loop is over, the clear and _save_changes.
ManualProceed(o) ==
    /\ IF o.todo = <<>>
       THEN /\ SaveChanges(ClearedBy(o, db_rating_changes), o.all_changes)
            /\ rc_op' = NoOp
       ELSE /\ rc_op' = o
            /\ UNCHANGED <<db_rating_changes, handle_rating_cache>>
    /\ UNCHANGED <<rc_monitored, rc_mon, rc_local, coord_pc>>
    /\ RatingFrame

\* fetch_contest(contest_id) is called (lines 357-363).
FetchContest(cid) ==
    /\ rc_op.op = "-"
    /\ coord_pc["RatingChangesCache"] # "off"
    /\ cid \in DOMAIN contest_by_id
    /\ ManualProceed([NoOp EXCEPT !.op = "contest", !.cid = cid, !.todo = <<cid>>])

\* fetch_all_contests() is called (lines 365-371).
FetchAllContests ==
    LET finished == contests_by_phase["FINISHED"]
    IN  /\ rc_op.op = "-"
        /\ coord_pc["RatingChangesCache"] # "off"
        /\ ManualProceed([NoOp EXCEPT !.op = "all",
                             !.todo = [j \in 1..Len(finished) |-> finished[j].id]])

\* fetch_missing_contests() is called (lines 373-380).
FetchMissingContests ==
    LET missing == SelectSeq(contests_by_phase["FINISHED"],
                      LAMBDA c : ~has_rating_changes_saved(db_rating_changes, c.id))
    IN  /\ rc_op.op = "-"
        /\ coord_pc["RatingChangesCache"] # "off"
        /\ ManualProceed([NoOp EXCEPT !.op = "missing",
                             !.todo = [j \in 1..Len(missing) |-> missing[j].id]])

\* One turn of _fetch's loop inside the manual operation ends with changes.
ManualFetched(changes) ==
    /\ rc_op.op # "-"
    /\ rc_op.todo # <<>>
    /\ ManualProceed([rc_op EXCEPT !.todo = Tail(@), !.all_changes = @ \o changes])

ManualFetchOK ==
    /\ rc_op.op # "-"
    /\ rc_op.todo # <<>>
    /\ \E changes \in RatingAnswers(Head(rc_op.todo)) : ManualFetched(changes)

\* cf.contest.ratingChanges raises CodeforcesApiError inside the operation.
ManualFetchFail == ManualFetched(<<>>)

(***************************************************************************)
(* RanklistCache.                                                          *)
(***************************************************************************)
\* The ranklist generate_ranklist builds at time t (line 560, 563-585).
Ranklist(c, t) == [contest |-> c, now |-> t]

NoCycle == [failed |-> {}, fetched |-> <<>>]
IdleRanklistFetch == [todo |-> <<>>, ranklist_by_contest |-> <<>>, failed |-> {}]

\* A dict with key k set to v.
DictSet(d, k, v) == [x \in DOMAIN d \cup {k} |-> IF x = k THEN v ELSE d[x]]

\* A monitor that publishes what it fetched and nothing else.
OnlyFetched(old, fetched) == fetched

\* Lines 535-536: the fetched ranklists replace the entries of their contests.
ApplyFetched(old, fetched) ==
    [c \in DOMAIN old \cup DOMAIN fetched |->
        IF c \in DOMAIN fetched THEN fetched[c] ELSE old[c]]

RanklistFrame ==
    UNCHANGED <<env, guardVars, contestVars, problemVars, psetVars, ratingVars>>

\* RanklistCache.run (lines 495-496), after RatingChangesCache.run (line 611).
RanklistCacheRun ==
    /\ coord_pc["RatingChangesCache"] # "off"
    /\ coord_pc["RanklistCache"] = "off"
    /\ coord_pc' = [coord_pc EXCEPT !["RanklistCache"] = "created"]
    /\ UNCHANGED ranklistVars
    /\ RanklistFrame

\* _update_task (lines 504-519), woken by ContestListRefresh.
RanklistCoordinator ==
    LET check(c) == is_newly_finished_without_rating_changes(c, now, db_rating_changes)
        to_monitor == contests_by_phase["_RUNNING"]
                      \o SelectSeq(contests_by_phase["FINISHED"], check)
    IN  /\ coord_pc["RanklistCache"] = "signalled"
        /\ coord_pc' = [coord_pc EXCEPT !["RanklistCache"] = "waiting"]
        /\ IF Ids(to_monitor) # Ids(rl_monitored)
           THEN IF to_monitor # <<>>
                THEN /\ rl_monitored' = to_monitor
                     /\ rl_mon' = TaskStart(TaskStop(rl_mon))
                     /\ UNCHANGED ranklist_by_contest
                ELSE /\ ranklist_by_contest' = <<>>
                     /\ rl_mon' = TaskStop(rl_mon)
                     /\ UNCHANGED rl_monitored
           ELSE UNCHANGED <<rl_monitored, rl_mon, ranklist_by_contest>>
        /\ UNCHANGED <<rl_local, rl_done>>
        /\ RanklistFrame

\* _monitor_task (lines 521-536) up to its first fetch.
RanklistMonitorFire(n) ==
    LET check(c) == \/ c.phase # "FINISHED"
                    \/ is_newly_finished_without_rating_changes(c, now, db_rating_changes)
        kept == SelectSeq(rl_monitored, check)
    IN  /\ rl_mon[n].pc = "wait"
        /\ rl_monitored' = kept
        /\ rl_done' = NoCycle
        /\ IF kept = <<>>
           THEN /\ ranklist_by_contest' = <<>>
                /\ rl_mon' = TaskStopSelf(rl_mon, n)
                /\ UNCHANGED rl_local
           ELSE /\ rl_mon' = [rl_mon EXCEPT ![n].pc = "fetch"]
                /\ rl_local' = [rl_local EXCEPT ![n] =
                                  [IdleRanklistFetch EXCEPT
                                     !.todo = [j \in 1..Len(kept) |-> kept[j].id]]]
                /\ UNCHANGED ranklist_by_contest
        /\ UNCHANGED coord_pc
        /\ RanklistFrame

\* One turn of _fetch's loop (lines 589-595) ends in locals l, and after the
\* last one the fetched ranklists are applied (lines 533-536).
RanklistFetched(n, l) ==
    /\ IF l.todo = <<>>
       THEN /\ ranklist_by_contest' = ApplyFetched(ranklist_by_contest, l.ranklist_by_contest)
            /\ rl_done' = [failed |-> l.failed, fetched |-> l.ranklist_by_contest]
            /\ rl_mon' = TaskAfterBody(rl_mon, n)
            /\ rl_local' = [rl_local EXCEPT ![n] = IdleRanklistFetch]
       ELSE /\ rl_local' = [rl_local EXCEPT ![n] = l]
            /\ UNCHANGED <<ranklist_by_contest, rl_done, rl_mon>>
    /\ UNCHANGED <<rl_monitored, coord_pc>>
    /\ RanklistFrame

RanklistFetchOK(n) ==
    /\ rl_mon[n].pc = "fetch"
    /\ LET c == Head(rl_local[n].todo)
       IN  RanklistFetched(n, [rl_local[n] EXCEPT
                                 !.todo = Tail(@),
                                 !.ranklist_by_contest = DictSet(@, c, Ranklist(c, now))])

\* A _fetch whose try is around the whole loop: the error ends the batch and
\* the ranklists fetched so far are not returned.
RanklistFetchAborts(n) ==
    /\ rl_mon[n].pc = "fetch"
    /\ rl_mon' = TaskAfterBody(rl_mon, n)
    /\ rl_local' = [rl_local EXCEPT ![n] = IdleRanklistFetch]
    /\ UNCHANGED <<ranklist_by_contest, rl_done, rl_monitored, coord_pc>>
    /\ RanklistFrame

\* generate_ranklist raises CodeforcesApiError (lines 594-595).
RanklistFetchFail(n) ==
    /\ rl_mon[n].pc = "fetch"
    /\ RanklistFetched(n, [rl_local[n] EXCEPT !.todo = Tail(@),
                                              !.failed = @ \cup {Head(rl_local[n].todo)}])

(***************************************************************************)
(* The caches after construction.                                          *)
(***************************************************************************)
EmptyByPhase == [p \in PhaseKeys |-> <<>>]

InitGuard ==
    /\ reload_lock = [k \in ReloadCaches |-> FreeLock]
    /\ reload_exception = [k \in ReloadCaches |-> NoException]
    /\ pc = [p \in Procs |-> IF IsCaller(p) THEN "idle" ELSE "off"]
    /\ caller_cache = [i \in Callers |-> "-"]
    /\ caller_result = [i \in Callers |-> "-"]
    /\ batch = [k \in ReloadCaches |-> NoBatch]
    /\ last_outcome = [k \in ReloadCaches |-> "-"]

InitContestCache ==
    /\ contests = <<>>
    /\ contests_by_phase = EmptyByPhase
    /\ contest_by_id = <<>>
    /\ contests_last_cache = 0
    /\ next_delay = None
    /\ sleep_arg = None

InitProblemCache ==
    /\ problems = <<>>
    /\ problem_by_name = <<>>

InitProblemsetCache ==
    /\ update_lock = FreeLock
    /\ ps_local = [p \in PsProcs |-> IdleLocal]
    /\ ps_done = <<>>

InitRatingChangesCache ==
    /\ handle_rating_cache = <<>>
    /\ rc_monitored = <<>>
    /\ rc_mon = TaskOff
    /\ rc_local = [n \in Loops |-> IdleFetch]
    /\ rc_op = NoOp

InitRanklistCache ==
    /\ ranklist_by_contest = <<>>
    /\ rl_monitored = <<>>
    /\ rl_mon = TaskOff
    /\ rl_local = [n \in Loops |-> IdleRanklistFetch]
    /\ rl_done = NoCycle

InitCoordinators ==
    /\ coord_pc = [c \in {"RatingChangesCache", "RanklistCache"} |-> "off"]
    /\ InitRatingChangesCache
    /\ InitRanklistCache

(***************************************************************************)
(* SpecGuard: one of the three caches that own a mutex, with its scheduled *)
(* task, its startup and the callers of its manual operations.  The three  *)
(* caches share no lock, so each behaviour follows one of them (focus).    *)
(***************************************************************************)
FinishedOnDisk ==
    << Contest(2, "FINISHED", T0 - 10800, 7200),
       Contest(1, "FINISHED", T0 - 20000, 7200),
       Contest(3, "FINISHED", T0 - 1300 * 1000, 7200) >>

Unrated == [i \in ProblemIndices |-> None]
HalfRated == [i \in ProblemIndices |-> IF i = "A" THEN Some(800) ELSE None]

InitGuardSpec ==
    /\ now = T0
    /\ focus \in LockedCaches
    /\ InitGuard
    /\ InitContestCache
    /\ InitProblemCache
    /\ InitProblemsetCache
    /\ InitCoordinators
    /\ db_rating_changes = {}
    /\ db_problems = <<>>
    /\ \/ /\ focus = "ContestCache"
          /\ remote \in ContestFeeds
          /\ db_contests = <<Contest(1, "CODING", T0 - 600, 7200)>>
          /\ remote_problems = <<>>
          /\ db_problemset = [c \in ContestIds |-> NoProblemset]
       \/ /\ focus = "ProblemCache"
          /\ remote = <<>>
          /\ db_contests = <<Contest(1, "CODING", T0 - 600, 7200)>>
          /\ remote_problems \in ProblemFeeds
          /\ db_problemset = [c \in ContestIds |-> NoProblemset]
       \/ /\ focus = "ProblemsetCache"
          /\ remote = <<>>
          /\ db_contests = FinishedOnDisk
          /\ remote_problems = <<>>
          /\ db_problemset \in
                { [c \in ContestIds |-> IF c = 1 THEN a ELSE IF c = 2 THEN b
                                        ELSE NoProblemset] :
                    a \in {NoProblemset, Unrated, HalfRated},
                    b \in {NoProblemset} }

GuardProcs == {TaskProc(focus)} \cup {CallerProc(i) : i \in Callers}

NextGuard ==
    \/ ContestCacheRun
    \/ focus = "ProblemCache" /\ ProblemCacheRun
    \/ focus = "ProblemsetCache" /\ ProblemsetCacheRun
    \/ focus \in ReloadCaches /\ RunQueue(focus)
    \/ focus \in ReloadCaches /\ TimerFire(focus)
    \/ focus \in ReloadCaches /\ \E i \in Callers : ReloadNow(i, focus)
    \/ \E i \in Callers : RideResume(i)
    \/ \E p \in GuardProcs : BodyResume(p)
    \/ \E p \in GuardProcs : ContestFetchOK(p)
    \/ \E p \in GuardProcs, ex \in Faults : ContestFetchFail(p, ex)
    \/ \E p \in GuardProcs : ProblemFetchOK(p)
    \/ \E p \in GuardProcs, ex \in Faults : ProblemFetchFail(p, ex)
    \/ focus = "ProblemsetCache" /\ PsTimerFire
    \/ focus = "ProblemsetCache" /\ \E i \in PsCallers, c \in ContestIds : UpdateForContest(i, c)
    \/ focus = "ProblemsetCache" /\ \E i \in PsCallers : UpdateForAll(i)
    \/ \E p \in GuardProcs : PsResume(p)
    \/ \E p \in GuardProcs : PsFetchOK(p)
    \/ \E p \in GuardProcs : PsFetchFail(p)

SpecGuard == InitGuardSpec /\ [][NextGuard]_vars

(***************************************************************************)
(* SpecReactive: the startup of CacheSystem.run, ContestCache's scheduled  *)
(* task, and the coordinator and monitor of one of the two caches that     *)
(* react to ContestListRefresh (focus), as the remote contest list changes *)
(* and time passes.                                                        *)
(***************************************************************************)
ReactiveCaches == {"RatingChangesCache", "RanklistCache"}
ReactiveClock == {T0, T0 + _RATED_DELAY - 1800}

\* Contest 1 ended an hour ago, contest 2 some minutes ago and is in system
\* test or finished, contest 3 ended weeks ago.
ReactiveFeed(phase2) ==
    << Contest(2, phase2, T0 - 8000, 7200),
       Contest(1, "FINISHED", T0 - 10800, 7200),
       Contest(3, "FINISHED", T0 - 1300 * 1000, 7200) >>

\* An answer of the service that lacks the two recent contests.
OldContestsOnly == << Contest(3, "FINISHED", T0 - 1300 * 1000, 7200) >>

ReactiveFeeds ==
    {ReactiveFeed("PENDING_SYSTEM_TEST"), ReactiveFeed("FINISHED"), OldContestsOnly}

\* time.time() advances.
Tick(clock) ==
    /\ now' \in {t \in clock : t > now}
    /\ UNCHANGED <<focus, guardVars, contestVars, problemVars, psetVars, reactVars, coord_pc>>

\* The remote service's contest list changes.
RemoteChange(feeds) ==
    /\ remote' \in feeds \ {remote}
    /\ UNCHANGED <<env, guardVars, db_contests, contests, contests_by_phase,
                   contest_by_id, contests_last_cache, next_delay, sleep_arg,
                   problemVars, psetVars, reactVars, coord_pc>>

InitReactive ==
    /\ now = T0
    /\ focus \in ReactiveCaches
    /\ InitGuard
    /\ InitContestCache
    /\ InitProblemCache
    /\ InitProblemsetCache
    /\ InitCoordinators
    /\ remote \in ReactiveFeeds
    /\ db_contests \in {<<>>, ReactiveFeed("PENDING_SYSTEM_TEST")}
    /\ db_rating_changes \in {{}, Elems(ChangesOf(3))}
    /\ remote_problems = <<>>
    /\ db_problems = <<>>
    /\ db_problemset = [c \in ContestIds |-> NoProblemset]

NextReactive ==
    \/ RatingChangesCacheRun
    \/ RanklistCacheRun
    \/ coord_pc["RanklistCache"] # "off" /\ ContestCacheRun
    \/ CoordBegin(focus)
    \/ TimerFire("ContestCache")
    \/ ContestFetchOK(TaskProc("ContestCache"))
    \/ ContestFetchFail(TaskProc("ContestCache"), "CodeforcesApiError")
    \/ RemoteChange(ReactiveFeeds)
    \/ Tick(ReactiveClock)
    \/ focus = "RatingChangesCache" /\ RatingCoordinator
    \/ focus = "RatingChangesCache" /\ \E n \in Loops : RatingMonitorFire(n)
    \/ focus = "RatingChangesCache" /\ \E n \in Loops : RatingFetchOK(n)
    \/ focus = "RatingChangesCache" /\ \E n \in Loops : RatingFetchFail(n)
    \/ focus = "RanklistCache" /\ RanklistCoordinator
    \/ focus = "RanklistCache" /\ \E n \in Loops : RanklistMonitorFire(n)
    \/ focus = "RanklistCache" /\ \E n \in Loops : RanklistFetchOK(n)
    \/ focus = "RanklistCache" /\ \E n \in Loops : RanklistFetchFail(n)

SpecReactive == InitReactive /\ [][NextReactive]_vars

(***************************************************************************)
(* The single-flight guard (checked under SpecGuard).                      *)
(***************************************************************************)
\* The coroutines inside the refresh body of cache k.
InBody(k) == {p \in Procs : pc[p] = "fetch" /\ CacheOf(p) = k}
LockOf(k) == IF k = "ProblemsetCache" THEN update_lock ELSE reload_lock[k]

\* C1: for each cache that owns a mutex, at most one refresh body (scheduled
\* iteration, manually triggered run, update_for_contest, update_for_all) is
\* executing in every reachable state, and it holds the cache's lock.
C1_MutualExclusion ==
    \A k \in LockedCaches :
        /\ Cardinality(InBody(k)) <= 1
        /\ InBody(k) # {} => LockOf(k).locked

\* A refresh body of the focused cache is executing while another coroutine
\* of that cache waits on its lock.
C1_Witness ==
    /\ InBody(focus) # {}
    /\ LockOf(focus).waiters # <<>>
    /\ pc[TaskProc(focus)] \in {"fetch", "acquire"}

\* C2: the reload_now() calls made on an idle cache and during the fetch the
\* first of them started perform exactly one fetch, none of them returns
\* before that fetch has completed, and if it failed each of them raises
\* that same error.
C2_SingleFlight ==
    \A k \in ReloadCaches :
        LET b == batch[k]
        IN  /\ b.fetches <= 1
            /\ b.returned # {} => b.fetches = 1 /\ b.outcome # "-"
            /\ b.outcome \in Faults =>
                  \A i \in b.returned : caller_result[i] = b.outcome

\* C3: a reload_now() call ends with the error recorded by the most recent
\* refresh cycle completed when it returns (the cycle it triggered, or the
\* last one it waited behind) and without error if that cycle succeeded;
\* a successful cycle leaves reload_exception = None.
C3_Returned(i) ==
    /\ pc[CallerProc(i)] # "idle"
    /\ caller_cache[i] \in ReloadCaches
    /\ pc'[CallerProc(i)] = "idle"

C9_TaskInBody == pc[PsTask] = "fetch"
C9_TaskSaves == pc[PsTask] \in {"acquire", "fetch"} /\ pc'[PsTask] = "wait"

C9_RatedIn(db, c, i) == i \in DOMAIN db[c] /\ db[c][i] # None

\* C9: a scheduled ProblemsetCache refresh never writes a problem whose
\* persisted rating is known back with an unknown rating, and its 'updated'
\* list holds only re-fetched problems whose rating is known and whose index
\* was not rated in the persisted problemset when the cycle started (the
\* persisted problemsets do not change while the cycle is in its body).
C9_NoDowngrade ==
    [][ /\ C9_TaskInBody /\ ~C9_TaskSaves => db_problemset' = db_problemset
        /\ C9_TaskSaves =>
              /\ \A c \in ContestIds : \A i \in ProblemIndices :
                    C9_RatedIn(db_problemset, c, i) => C9_RatedIn(db_problemset', c, i)
              /\ \A j \in 1..Len(ps_done') :
                    /\ ps_done'[j].rating # None
                    /\ ~C9_RatedIn(db_problemset, ps_done'[j].contestId, ps_done'[j].index)
      ]_vars

\* A scheduled cycle re-fetched a contest that had a rated and an unrated
\* problem saved, and reported the unrated one as updated.
C9_Witness ==
    /\ ps_done # <<>>
    /\ \E i \in ProblemIndices \ {ps_done[1].index} :
          C9_RatedIn(db_problemset, ps_done[1].contestId, i)
    /\ pc[PsTask] = "wait"

(***************************************************************************)
(* SpecSchedule: ContestCache's startup and scheduled task alone, for      *)
(* every contest list the remote service can hold, as time passes.         *)
(***************************************************************************)
ScheduleClock == {T0, T0 + 200}

InitSchedule ==
    /\ now = T0
    /\ focus = "ContestCache"
    /\ InitGuard
    /\ InitContestCache
    /\ InitProblemCache
    /\ InitProblemsetCache
    /\ InitCoordinators
    /\ db_rating_changes = {}
    /\ remote \in ContestLists(ContestIds, ContestShapes, MaxListLen)
    /\ db_contests \in {<<>>, << Contest(2, "CODING", T0 - 600, 7200),
                                Contest(1, "CODING", T0 - 600, 7200) >>}
    /\ remote_problems = <<>>
    /\ db_problems = <<>>
    /\ db_problemset = [c \in ContestIds |-> NoProblemset]

NextSchedule ==
    \/ ContestCacheRun
    \/ TimerFire("ContestCache")
    \/ ContestFetchOK(TaskProc("ContestCache"))
    \/ ContestFetchFail(TaskProc("ContestCache"), "CodeforcesApiError")
    \/ Tick(ScheduleClock)

SpecSchedule == InitSchedule /\ [][NextSchedule]_vars

(***************************************************************************)
(* The adaptive delay and the published snapshot (checked under            *)
(* SpecSchedule).                                                          *)
(***************************************************************************)
MinOf(S) == CHOOSE x \in S : \A y \in S : x <= y

\* What one BEFORE contest proposes at time t.
Proposal(contest, t) ==
    IF contest.startTimeSeconds - _ACTIVATE_BEFORE > t
    THEN contest.startTimeSeconds - _ACTIVATE_BEFORE - t
    ELSE Min(contest.startTimeSeconds - t, _ACTIVE_CONTEST_RELOAD_DELAY)

\* The minimum over the baseline, every BEFORE proposal and the active delay.
MinimumDelay(cs, t) ==
    MinOf({_NORMAL_CONTEST_RELOAD_DELAY}
          \cup {Proposal(c, t) : c \in {x \in Elems(cs) : x.phase = "BEFORE"}}
          \cup (IF \E x \in Elems(cs) : InRunningPhase(x)
                THEN {_ACTIVE_CONTEST_RELOAD_DELAY} ELSE {}))

\* The last cycle of ContestCache's task was a successful refresh, made at
\* time contests_last_cache, and next_delay is the delay _update returned.
RefreshedOK ==
    /\ last_outcome["ContestCache"] = NoException
    /\ next_delay # None

\* C4: the delay returned by _update is the minimum of the baseline, of each
\* BEFORE contest's proposal and, if a contest is running, of the active
\* delay, whatever the order and number of the BEFORE contests.
C4_DelayIsMinimum ==
    RefreshedOK => next_delay = Some(MinimumDelay(contests, contests_last_cache))

\* C5: after a successful refresh the next delay is at most the time left
\* until the start of every BEFORE contest of the snapshot that has not
\* started yet.
C5_WakesBeforeStart ==
    RefreshedOK =>
        \A c \in Elems(contests_by_phase["BEFORE"]) :
            c.startTimeSeconds > contests_last_cache =>
                next_delay[1] <= c.startTimeSeconds - contests_last_cache

\* C6: the published sequence is sorted by (startTimeSeconds, id); each of
\* its contests is in exactly one phase bucket, the one of its phase, and in
\* contest_by_id; _RUNNING is the union of the three running buckets; the
\* buckets and the id index hold the contests of that sequence and no other.
C6_Sorted ==
    \A j \in 1..(Len(contests) - 1) :
        \/ contests[j].startTimeSeconds < contests[j + 1].startTimeSeconds
        \/ /\ contests[j].startTimeSeconds = contests[j + 1].startTimeSeconds
           /\ contests[j].id <= contests[j + 1].id

C6_Occurrences(c, ph) ==
    Cardinality({j \in 1..Len(contests_by_phase[ph]) : contests_by_phase[ph][j] = c})

C6_RunningTotal ==
    Len(contests_by_phase["CODING"]) + Len(contests_by_phase["PENDING_SYSTEM_TEST"])
    + Len(contests_by_phase["SYSTEM_TEST"])

C6_SnapshotConsistent ==
    /\ C6_Sorted
    /\ \A c \in Elems(contests) :
          /\ \A ph \in PHASES : C6_Occurrences(c, ph) = (IF ph = c.phase THEN 1 ELSE 0)
          /\ c.id \in DOMAIN contest_by_id /\ contest_by_id[c.id] = c
    /\ \A ph \in PHASES : Elems(contests_by_phase[ph]) \subseteq Elems(contests)
    /\ DOMAIN contest_by_id = {c.id : c \in Elems(contests)}
    /\ Elems(contests_by_phase["_RUNNING"]) =
          UNION {Elems(contests_by_phase[ph]) : ph \in _RUNNING_PHASES}
    /\ Len(contests_by_phase["_RUNNING"]) = C6_RunningTotal

\* A list fetched out of order was published, with a running contest in it,
\* and a later refresh failed.
C6_Witness ==
    /\ Len(contests) >= 2
    /\ contests # remote
    /\ contests_by_phase["_RUNNING"] # <<>>
    /\ contests_by_phase["BEFORE"] # <<>>
    /\ reload_exception["ContestCache"] \in Faults

\* C11: whenever ContestCache's task is in its waiter's
\* asyncio.sleep(self.next_delay), the argument of that sleep is a number set
\* by a completed refresh body or by the exception handler, never None; the
\* first wait after run() included.
C11_WaiterHasDelay ==
    pc[TaskProc("ContestCache")] = "wait" => sleep_arg # None

\* The snapshot has no running contest and each of its BEFORE contests
\* starts more than _ACTIVATE_BEFORE plus the error delay after time t.
C22_Quiet(t) ==
    /\ contests_by_phase["_RUNNING"] = <<>>
    /\ \A c \in Elems(contests_by_phase["BEFORE"]) :
          c.startTimeSeconds - t > _ACTIVATE_BEFORE + DelayAfterFault[1]

\* C22 as stated: the error delay is strictly shorter than the delay set by
\* any successful refresh.
C22_ErrorDelayShorter ==
    RefreshedOK => DelayAfterFault[1] < next_delay[1]

\* C22 as amended: the delay set by a successful refresh is longer than the
\* error delay exactly when no contest is running and every BEFORE contest
\* starts more than _ACTIVATE_BEFORE plus the error delay later; in every
\* other case it is the error delay or less.
C22_ErrorDelayShorterWhenQuiet ==
    RefreshedOK =>
        IF C22_Quiet(contests_last_cache)
        THEN DelayAfterFault[1] < next_delay[1]
        ELSE next_delay[1] <= DelayAfterFault[1]

\* A successful refresh of a list with a running contest has set the delay
\* to the value the exception handler sets.
C22_Witness ==
    /\ RefreshedOK
    /\ contests_by_phase["_RUNNING"] # <<>>
    /\ next_delay = DelayAfterFault
    /\ pc[TaskProc("ContestCache")] = "wait"

(***************************************************************************)
(* The two reactive caches (checked under SpecReactive).                   *)
(***************************************************************************)
\* RatingChangesCache's coordinator has processed a ContestListRefresh.
C7_Processed ==
    /\ coord_pc["RatingChangesCache"] = "signalled"
    /\ coord_pc'["RatingChangesCache"] = "waiting"

C7_Qualifies(c) ==
    /\ c.phase = "FINISHED"
    /\ now - (c.startTimeSeconds + c.durationSeconds) < 36 * 60 * 60
    /\ \A ch \in db_rating_changes : ch.contestId # c.id

\* C7: once RatingChangesCache's coordinator has processed a
\* ContestListRefresh, a contest of the current snapshot is monitored if and
\* only if it is FINISHED, ended less than 36 h ago and has no rating change
\* saved.
C7_MonitoredSet ==
    [][ C7_Processed =>
          \A c \in Elems(contests) : c.id \in Ids(rc_monitored') <=> C7_Qualifies(c)
      ]_vars

\* The coordinator has processed the refresh made 36 h less 30 min later:
\* contest 2, finished and without changes, is monitored; contest 1, which
\* has no change saved either but ended more than 36 h ago, is not.
C7_Witness ==
    /\ coord_pc["RatingChangesCache"] = "waiting"
    /\ contests_last_cache = T0 + _RATED_DELAY - 1800
    /\ Ids(rc_monitored) = {2}
    /\ \E c \in Elems(contests) : c.id = 1 /\ c.phase = "FINISHED"
    /\ \A ch \in db_rating_changes : ch.contestId \notin {1, 2}

\* _refresh_handle_cache runs: at startup, and after the monitor or a manual
\* operation saved changes.
C8_Refreshed ==
    \/ coord_pc["RatingChangesCache"] = "off" /\ coord_pc'["RatingChangesCache"] # "off"
    \/ rc_mon' # rc_mon /\ db_rating_changes' # db_rating_changes
    \/ /\ rc_op.op # "-" /\ rc_op'.op = "-"
       /\ ~(db_rating_changes' \subseteq ClearedBy(rc_op, db_rating_changes))

C8_Deltas(db, h) == {<<ch.contestId, ch.newRating - ch.oldRating>> : ch \in {x \in db : x.handle = h}}

RECURSIVE C8_Sum(_)
C8_Sum(S) ==
    IF S = {} THEN 0
    ELSE LET d == CHOOSE x \in S : TRUE IN d[2] + C8_Sum(S \ {d})

\* C8: whenever the Handle Rating Map is recomputed, in whatever order the
\* store returns the persisted changes, it holds exactly the handles with at
\* least one change, each at 1500 plus the sum of its deltas, and
\* get_current_rating_or_default answers 1500 for every other handle.
C8_HandleRatings ==
    [][ C8_Refreshed =>
          /\ DOMAIN handle_rating_cache' = {ch.handle : ch \in db_rating_changes'}
          /\ \A h \in DOMAIN handle_rating_cache' :
                handle_rating_cache'[h] = 1500 + C8_Sum(C8_Deltas(db_rating_changes', h))
          /\ \A h \in {"a", "b", "c"} \ DOMAIN handle_rating_cache' :
                /\ get_current_rating_or_default(handle_rating_cache', h) = 1500
                /\ get_current_rating(handle_rating_cache', h) = None
      ]_vars

\* The map was recomputed from the changes of three contests: handle a has
\* three changes, handle b two.
C8_Witness ==
    /\ Cardinality(db_rating_changes) = 5
    /\ handle_rating_cache = [h \in {"a", "b"} |-> IF h = "a" THEN 1560 ELSE 1480]

C10_Entry(d, c) == IF c \in DOMAIN d THEN <<d[c]>> ELSE <<>>

\* C10: the step that ends a RanklistCache monitor cycle leaves the entry of
\* every contest whose fetch failed as it was and sets the entry of every
\* contest whose fetch succeeded to the ranklist fetched; the steps of the
\* cycle before it leave ranklist_by_contest as it was.
C10_FailedFetchKeepsEntry ==
    [][ InMonitorBody(rl_mon) # {} =>
          IF InMonitorBody(rl_mon') = {}
          THEN /\ \A c \in rl_done'.failed :
                     C10_Entry(ranklist_by_contest', c) = C10_Entry(ranklist_by_contest, c)
               /\ \A c \in DOMAIN rl_done'.fetched :
                     C10_Entry(ranklist_by_contest', c) = <<rl_done'.fetched[c]>>
          ELSE rl_local' # rl_local => ranklist_by_contest' = ranklist_by_contest
      ]_vars

\* A monitor cycle over two contests ended: the fetch of one failed and its
\* ranklist of the cycle before is still there, the other's is the new one.
C10_Witness ==
    /\ rl_done.failed # {}
    /\ DOMAIN rl_done.fetched # {}
    /\ \E c \in rl_done.failed, d \in DOMAIN rl_done.fetched :
          /\ c \in DOMAIN ranklist_by_contest
          /\ d \in DOMAIN ranklist_by_contest
          /\ ranklist_by_contest[c].now < ranklist_by_contest[d].now

\* A refresh body of ContestCache ends by raising.
C12_RefreshFails ==
    /\ \E p \in Procs : pc[p] = "fetch" /\ CacheOf(p) = "ContestCache" /\ pc'[p] # "fetch"
    /\ last_outcome'["ContestCache"] \in Faults

\* C12: when a ContestCache refresh fails, reload_exception holds the fault
\* and next_delay the fixed error delay of 300 s, whatever contests are
\* cached; contests, contests_by_phase and contest_by_id are unchanged, no
\* ContestListRefresh is dispatched (no waiting coordinator is woken), and
\* reload_lock is not held afterwards.
C12_FailedRefresh ==
    [][ C12_RefreshFails =>
          /\ reload_exception'["ContestCache"] = last_outcome'["ContestCache"]
          /\ next_delay' = Some(300)
          /\ contests' = contests
          /\ contests_by_phase' = contests_by_phase
          /\ contest_by_id' = contest_by_id
          /\ coord_pc' = coord_pc
          /\ ~reload_lock'["ContestCache"].locked
      ]_vars

\* A refresh failed while the snapshot held finished contests only (the
\* adaptive delay was the baseline) and the coordinator was waiting for a
\* ContestListRefresh: the task sleeps 300 s and the coordinator still waits.
C12_Witness ==
    /\ reload_exception["ContestCache"] \in Faults
    /\ contests # <<>>
    /\ contests_by_phase["_RUNNING"] = <<>>
    /\ contests_by_phase["BEFORE"] = <<>>
    /\ sleep_arg = Some(_EXCEPTION_CONTEST_RELOAD_DELAY)
    /\ coord_pc[focus] = "waiting"

(***************************************************************************)
(* SpecLive: the single-flight guard of ContestCache or ProblemCache under *)
(* the scheduling the event loop gives: code that can run does run, a      *)
(* sleep ends, a woken waiter of a lock takes it, and a remote call        *)
(* returns or raises.                                                      *)
(***************************************************************************)
InitLive == InitGuardSpec /\ focus \in ReloadCaches

LiveCallers == 1..NumLiveCallers

\* The faults the remote calls raise under SpecLive.
LiveFaults == {"CodeforcesApiError"}

NextLive ==
    \/ ContestCacheRun
    \/ focus = "ProblemCache" /\ ProblemCacheRun
    \/ RunQueue(focus)
    \/ TimerFire(focus)
    \/ \E i \in LiveCallers : ReloadNow(i, focus)
    \/ \E i \in Callers : RideResume(i)
    \/ \E p \in GuardProcs : BodyResume(p)
    \/ \E p \in GuardProcs : ContestFetchOK(p)
    \/ \E p \in GuardProcs, ex \in LiveFaults : ContestFetchFail(p, ex)
    \/ \E p \in GuardProcs : ProblemFetchOK(p)
    \/ \E p \in GuardProcs, ex \in LiveFaults : ProblemFetchFail(p, ex)

\* CacheSystem.run() runs the cache's run(), which takes the lock or queues on it.
RunReturns ==
    \/ ContestCacheRun
    \/ focus = "ProblemCache" /\ ProblemCacheRun
    \/ RunQueue(focus)

\* The remote call of p returns or raises.
FetchReturns(p) ==
    \/ ContestFetchOK(p)
    \/ ProblemFetchOK(p)
    \/ \E ex \in LiveFaults : ContestFetchFail(p, ex) \/ ProblemFetchFail(p, ex)

\* A coroutine that can run is run by the event loop.
LiveStep(p) ==
    \/ BodyResume(p)
    \/ FetchReturns(p)
    \/ IsCaller(p) /\ RideResume(p[2])
    \/ p = TaskProc(focus) /\ TimerFire(focus)

FairLive ==
    /\ WF_vars(RunReturns)
    /\ \A p \in Procs : WF_vars(LiveStep(p))

SpecLive == InitLive /\ [][NextLive]_vars /\ FairLive

CoordinatorCycle ==
    coord_pc[focus] = "signalled" /\ coord_pc'[focus] = "waiting"

\* The set that cycle computes (lines 398-399, 507-510).
ComputedSet ==
    LET check(c) == is_newly_finished_without_rating_changes(c, now, db_rating_changes)
        finished == SelectSeq(contests_by_phase["FINISHED"], check)
    IN  IF focus = "RatingChangesCache" THEN finished
        ELSE contests_by_phase["_RUNNING"] \o finished

MonitoredAfter == IF focus = "RatingChangesCache" THEN rc_monitored' ELSE rl_monitored'
MonitorAfter == IF focus = "RatingChangesCache" THEN rc_mon' ELSE rl_mon'

\* A loop of the task goes on after its iteration in progress, if any.
MonitorGoesOn(m) == \E n \in Loops : m[n].pc # "off" /\ ~m[n].stop

\* C14: a coordinator cycle that computes a non-empty set leaves the monitor
\* sub-task running, also when the ids of the set equal the ids left in
\* monitored_contests; a cycle that computes an empty set leaves it stopped.
C14_MonitorFollowsSet ==
    [][ CoordinatorCycle =>
          (ComputedSet # <<>> <=> MonitorGoesOn(MonitorAfter))
      ]_vars

\* C15: at the end of a coordinator cycle the ids of monitored_contests are
\* the ids of the set the cycle computed; when that set is empty,
\* monitored_contests is empty and the monitor sub-task is stopped.
C15_MonitoredIsComputed ==
    [][ CoordinatorCycle =>
          /\ Ids(MonitoredAfter) = Ids(ComputedSet)
          /\ ComputedSet = <<>> => ~MonitorGoesOn(MonitorAfter)
      ]_vars

(***************************************************************************)
(* SpecManual: RatingChangesCache with its coordinator, its monitor and a  *)
(* caller of fetch_contest, fetch_all_contests and fetch_missing_contests, *)
(* while ContestCache refreshes from a service whose list stays the same.  *)
(***************************************************************************)
InitManual ==
    /\ InitReactive
    /\ focus = "RatingChangesCache"
    /\ remote = ReactiveFeed("FINISHED")
    /\ db_contests = <<>>

NextManual ==
    \/ RatingChangesCacheRun
    \/ RanklistCacheRun
    \/ coord_pc["RanklistCache"] # "off" /\ ContestCacheRun
    \/ CoordBegin(focus)
    \/ TimerFire("ContestCache")
    \/ ContestFetchOK(TaskProc("ContestCache"))
    \/ RatingCoordinator
    \/ \E n \in Loops : RatingMonitorFire(n)
    \/ \E n \in Loops : RatingFetchOK(n)
    \/ \E n \in Loops : RatingFetchFail(n)
    \/ \E c \in ContestIds : FetchContest(c)
    \/ FetchAllContests
    \/ FetchMissingContests
    \/ ManualFetchOK
    \/ ManualFetchFail

SpecManual == InitManual /\ [][NextManual]_vars

\* A manual operation, or a monitor cycle that fetched, ends in this step.
C16_Completed ==
    \/ rc_op.op # "-" /\ rc_op'.op = "-"
    \/ \E n \in Loops : rc_mon[n].pc = "fetch" /\ rc_mon'[n].pc # "fetch"

\* C16: when fetch_contest, fetch_all_contests, fetch_missing_contests or a
\* monitor cycle of RatingChangesCache completes, the Handle Rating Map holds
\* exactly the handles with a persisted change, each at 1500 plus the sum of
\* its persisted deltas; also when the fetch returned no change after the
\* operation cleared persisted changes.
C16_MapIsAggregate ==
    [][ C16_Completed =>
          /\ DOMAIN handle_rating_cache' = {ch.handle : ch \in db_rating_changes'}
          /\ \A h \in DOMAIN handle_rating_cache' :
                handle_rating_cache'[h] = 1500 + C8_Sum(C8_Deltas(db_rating_changes', h))
      ]_vars

\* C17: the monitor body and the manual operations of RatingChangesCache
\* are mutually exclusive: never is a manual operation between the start of
\* its fetch and the end of its save while a monitor body is between its
\* own, and never are two monitor bodies.
C17_RatingBodiesExclusive ==
    /\ ~(rc_op.op # "-" /\ InMonitorBody(rc_mon) # {})
    /\ Cardinality(InMonitorBody(rc_mon)) <= 1

\* The loops of a monitor task that exist (are waiting or in their body).
C19_Alive(m) == {n \in Loops : m[n].pc # "off"}

get_ranklist(c) ==
    IF c \in DOMAIN ranklist_by_contest
    THEN Some(ranklist_by_contest[c])
    ELSE "RanklistNotMonitored"

\* C23: ranklist_by_contest holds entries only for contests of the current
\* monitored set: get_ranklist raises RanklistNotMonitored for every contest
\* that is not monitored, also while other contests are.
C23_OnlyMonitoredRanklists ==
    \A c \in ContestIds :
        c \notin Ids(rl_monitored) => get_ranklist(c) = "RanklistNotMonitored"

\* C24: when the remote fetch of a manual update_for_contest or
\* update_for_all fails with an API error for a contest, the problemset
\* saved for that contest stays as it was.
C24_FailedFetchKeepsProblemset ==
    [][ \A p \in PsProcs :
          (IsCaller(p) /\ PsFetchFail(p)) =>
              LET c == NextContestId(ps_local[p])
              IN  db_problemset'[c] = db_problemset[c]
      ]_vars

(***************************************************************************)
(* SpecBatch: the three batch fetches (ProblemsetCache._fetch_problemsets, *)
(* RatingChangesCache._fetch, RanklistCache._fetch), each over several     *)
(* contests, with remote calls that answer or raise CodeforcesApiError.    *)
(***************************************************************************)
BatchCaches == {"ProblemsetCache", "RatingChangesCache", "RanklistCache"}

InitBatch ==
    /\ now = T0
    /\ focus \in BatchCaches
    /\ InitGuard
    /\ InitContestCache
    /\ InitProblemCache
    /\ InitProblemsetCache
    /\ InitCoordinators
    /\ remote = ReactiveFeed("FINISHED")
    /\ db_contests = ReactiveFeed("PENDING_SYSTEM_TEST")
    /\ db_rating_changes = {}
    /\ remote_problems = <<>>
    /\ db_problems = <<>>
    /\ db_problemset \in
          { [c \in ContestIds |-> IF c = 1 THEN a ELSE NoProblemset] :
              a \in {NoProblemset, HalfRated} }

NextBatch ==
    \/ RatingChangesCacheRun
    \/ RanklistCacheRun
    \/ coord_pc["RanklistCache"] # "off" /\ ContestCacheRun
    \/ focus \in ReactiveCaches /\ CoordBegin(focus)
    \/ TimerFire("ContestCache")
    \/ ContestFetchOK(TaskProc("ContestCache"))
    \/ focus = "RatingChangesCache" /\ RatingCoordinator
    \/ focus = "RatingChangesCache" /\ \E n \in Loops : RatingMonitorFire(n)
    \/ focus = "RatingChangesCache" /\ \E n \in Loops : RatingFetchOK(n)
    \/ focus = "RatingChangesCache" /\ \E n \in Loops : RatingFetchFail(n)
    \/ focus = "RanklistCache" /\ RanklistCoordinator
    \/ focus = "RanklistCache" /\ \E n \in Loops : RanklistMonitorFire(n)
    \/ focus = "RanklistCache" /\ \E n \in Loops : RanklistFetchOK(n)
    \/ focus = "RanklistCache" /\ \E n \in Loops : RanklistFetchFail(n)
    \/ focus = "ProblemsetCache" /\ pc[RunProc("ContestCache")] = "done" /\ ProblemsetCacheRun
    \/ focus = "ProblemsetCache" /\ PsTimerFire
    \/ focus = "ProblemsetCache" /\ \E i \in PsCallers : UpdateForAll(i)
    \/ \E p \in PsProcs : PsResume(p)
    \/ \E p \in PsProcs : PsFetchOK(p)
    \/ \E p \in PsProcs : PsFetchFail(p)

SpecBatch == InitBatch /\ [][NextBatch]_vars

\* The contests a ProblemsetCache batch has still to fetch.
C18_PsTodo(j) == Len(j.todo_new) + Len(j.todo_refetch)

\* The problems pr of a list are saved with their rating.
C18_Saved(db, probs) ==
    \A k \in 1..Len(probs) :
        /\ probs[k].index \in DOMAIN db[probs[k].contestId]
        /\ db[probs[k].contestId][probs[k].index] = probs[k].rating

\* A turn of ProblemsetCache's batch in coroutine p: the batch goes on with
\* the remaining contests and keeps what it fetched, or was at its last
\* contest and saves what it fetched.
C18_Problemset(p) ==
    (pc[p] = "fetch" /\ CacheOf(p) = "ProblemsetCache" /\ ps_local'[p] # ps_local[p]) =>
        IF pc'[p] = "fetch"
        THEN /\ C18_PsTodo(ps_local'[p]) = C18_PsTodo(ps_local[p]) - 1
             /\ SubSeq(ps_local'[p].new_problems, 1, Len(ps_local[p].new_problems))
                   = ps_local[p].new_problems
             /\ SubSeq(ps_local'[p].updated_problems, 1, Len(ps_local[p].updated_problems))
                   = ps_local[p].updated_problems
        ELSE /\ C18_PsTodo(ps_local[p]) = 1
             /\ C18_Saved(db_problemset', ps_local[p].new_problems)
             /\ C18_Saved(db_problemset', ps_local[p].updated_problems)
             /\ pc'[p] \in {"wait", "idle"}

\* The same for a turn of RatingChangesCache._fetch in monitor loop n.
C18_Rating(n) ==
    (rc_mon[n].pc = "fetch" /\ <<rc_mon, rc_local>>' # <<rc_mon, rc_local>>) =>
        IF rc_mon'[n].pc = "fetch"
        THEN /\ rc_local'[n].todo = Tail(rc_local[n].todo)
             /\ SubSeq(rc_local'[n].all_changes, 1, Len(rc_local[n].all_changes))
                   = rc_local[n].all_changes
        ELSE /\ Len(rc_local[n].todo) = 1
             /\ Elems(rc_local[n].all_changes) \subseteq db_rating_changes'
             /\ rc_mon'[n].pc = "wait"

\* The same for a turn of RanklistCache._fetch in monitor loop n.
C18_Ranklist(n) ==
    (rl_mon[n].pc = "fetch" /\ <<rl_mon, rl_local>>' # <<rl_mon, rl_local>>) =>
        IF rl_mon'[n].pc = "fetch"
        THEN /\ rl_local'[n].todo = Tail(rl_local[n].todo)
             /\ \A c \in DOMAIN rl_local[n].ranklist_by_contest :
                   /\ c \in DOMAIN rl_local'[n].ranklist_by_contest
                   /\ rl_local'[n].ranklist_by_contest[c] = rl_local[n].ranklist_by_contest[c]
        ELSE /\ Len(rl_local[n].todo) = 1
             /\ \A c \in DOMAIN rl_local[n].ranklist_by_contest :
                   /\ c \in DOMAIN ranklist_by_contest'
                   /\ ranklist_by_contest'[c] = rl_local[n].ranklist_by_contest[c]
             /\ rl_mon'[n].pc = "wait"

\* C18: in a batch over several contests, each turn of the loop, whether
\* the remote call answered or raised an API error, leaves the remaining
\* contests to be fetched and keeps the results fetched so far; the batch
\* ends only after its last contest, its results are then saved, and the
\* operation returns to its caller or its loop without raising.
C18_BatchGoesOn ==
    [][ /\ \A p \in PsProcs : C18_Problemset(p)
        /\ \A n \in Loops : C18_Rating(n)
        /\ \A n \in Loops : C18_Ranklist(n)
      ]_vars

\* A RanklistCache batch over two contests has ended: the fetch of its first
\* contest raised and the ranklist of its second is published.
C18_Witness ==
    /\ focus = "RanklistCache"
    /\ Len(rl_monitored) = 2
    /\ rl_done.failed = {rl_monitored[1].id}
    /\ DOMAIN rl_done.fetched = {rl_monitored[2].id}
    /\ rl_monitored[2].id \in DOMAIN ranklist_by_contest
    /\ rl_monitored[1].id \notin DOMAIN ranklist_by_contest

(***************************************************************************)
(* SpecFollow: the signal from ContestCache to the coordinators, under     *)
(* fair scheduling.  The event loop runs every coroutine that can run, and *)
(* every remote call returns, with an answer or with an error.             *)
(***************************************************************************)
InitFollow ==
    /\ InitReactive
    /\ remote = ReactiveFeed("FINISHED")
    /\ db_rating_changes = {}

\* Startup, in the order of CacheSystem.run (lines 609-614).
Startup ==
    \/ RatingChangesCacheRun
    \/ RanklistCacheRun
    \/ coord_pc["RanklistCache"] # "off" /\ ContestCacheRun

\* The tasks of the coordinators were created before ContestCache's task
\* (lines 355, 496, 55) and reach their wait before its first sleep ends.
FollowTimerFire == coord_pc[focus] = "waiting" /\ TimerFire("ContestCache")

\* cf.contest.list() returns to ContestCache's task.
ContestFetchReturns ==
    \/ ContestFetchOK(TaskProc("ContestCache"))
    \/ ContestFetchFail(TaskProc("ContestCache"), "CodeforcesApiError")

\* The coordinator of the cache in focus runs its body.
Coordinator ==
    \/ focus = "RatingChangesCache" /\ RatingCoordinator
    \/ focus = "RanklistCache" /\ RanklistCoordinator

MonitorFire(n) ==
    \/ focus = "RatingChangesCache" /\ RatingMonitorFire(n)
    \/ focus = "RanklistCache" /\ RanklistMonitorFire(n)

MonitorFetchReturns(n) ==
    \/ focus = "RatingChangesCache" /\ (RatingFetchOK(n) \/ RatingFetchFail(n))
    \/ focus = "RanklistCache" /\ (RanklistFetchOK(n) \/ RanklistFetchFail(n))

NextFollow ==
    \/ Startup
    \/ CoordBegin(focus)
    \/ FollowTimerFire
    \/ ContestFetchReturns
    \/ Coordinator
    \/ \E n \in Loops : MonitorFire(n)
    \/ \E n \in Loops : MonitorFetchReturns(n)

FairFollow ==
    /\ WF_vars(Startup)
    /\ WF_vars(CoordBegin(focus))
    /\ WF_vars(FollowTimerFire)
    /\ WF_vars(ContestFetchReturns)
    /\ WF_vars(Coordinator)
    /\ \A n \in Loops : WF_vars(MonitorFire(n)) /\ WF_vars(MonitorFetchReturns(n))

SpecFollow == InitFollow /\ [][NextFollow]_vars /\ FairFollow

\* A ContestListRefresh was dispatched (the snapshot is only ever published
\* together with the signal, lines 145-150) and the coordinator of cache c
\* has not reached its wait yet.
C20_SentBeforeWait(c) == contests # <<>> /\ coord_pc[c] = "created"

\* C20: under fair scheduling, a ContestListRefresh dispatched before the
\* coordinator of a reactive cache waits for it, as the one of the startup
\* disk load is, is eventually followed by the coordinator being woken to
\* run a cycle.
C20_RefreshIsFollowed ==
    \A c \in ReactiveCaches :
        (focus = c /\ C20_SentBeforeWait(c)) ~> (coord_pc[c] = "signalled")

(***************************************************************************)
(* SpecExpire: RatingChangesCache's monitor over a fixed contest list      *)
(* while time advances past the rated-delay window, under fair scheduling. *)
(***************************************************************************)
ExpireClock == {T0, T0 + _RATED_DELAY - 1800, T0 + _RATED_DELAY}

InitExpire ==
    /\ InitReactive
    /\ focus = "RatingChangesCache"
    /\ remote = ReactiveFeed("FINISHED")
    /\ db_rating_changes = {}

RatingFetchReturns(n) == RatingFetchOK(n) \/ RatingFetchFail(n)

NextExpire ==
    \/ Startup
    \/ CoordBegin(focus)
    \/ TimerFire("ContestCache")
    \/ ContestFetchReturns
    \/ Tick(ExpireClock)
    \/ RatingCoordinator
    \/ \E n \in Loops : RatingMonitorFire(n)
    \/ \E n \in Loops : RatingFetchReturns(n)

FairExpire ==
    /\ WF_vars(Startup)
    /\ WF_vars(CoordBegin(focus))
    /\ WF_vars(TimerFire("ContestCache"))
    /\ WF_vars(ContestFetchReturns)
    /\ WF_vars(Tick(ExpireClock))
    /\ WF_vars(RatingCoordinator)
    /\ \A n \in Loops : WF_vars(RatingMonitorFire(n)) /\ WF_vars(RatingFetchReturns(n))

SpecExpire == InitExpire /\ [][NextExpire]_vars /\ FairExpire

\* Contest c has a rating change saved or ended _RATED_DELAY or longer ago.
C21_Done(c) ==
    \/ \E ch \in db_rating_changes : ch.contestId = c.id
    \/ now - (c.startTimeSeconds + c.durationSeconds) >= _RATED_DELAY

\* Loop n of the monitor leaves its wait and starts a cycle.
C21_CycleStarts(n) ==
    rc_mon[n].pc = "wait" /\ rc_mon'[n].pc # "wait" /\ coord_pc' = coord_pc

C21_Remaining == {j \in 1..Len(rc_monitored) : ~C21_Done(rc_monitored[j])}

\* C21: a monitor cycle of RatingChangesCache drops every monitored contest
\* that has rating changes saved or whose rated-delay window has elapsed,
\* without fetching it; when none remains the monitor stops itself; and
\* under fair scheduling with advancing time the monitor, once running,
\* eventually stops.
C21_MonitorEnds ==
    /\ [][ \A n \in Loops : C21_CycleStarts(n) =>
              /\ Ids(rc_monitored') = {rc_monitored[j].id : j \in C21_Remaining}
              /\ IF C21_Remaining = {}
                 THEN ~Running(rc_mon')
                 ELSE /\ rc_mon'[n].pc = "fetch"
                      /\ Elems(rc_local'[n].todo) = Ids(rc_monitored')
          ]_vars
    /\ Running(rc_mon) ~> ~Running(rc_mon)

\* Contest 1 had its rating changes saved by the monitor, the window of the
\* other contest has elapsed, and the monitor has stopped with an empty set.
C21_Witness ==
    /\ Elems(ChangesOf(1)) \subseteq db_rating_changes
    /\ now = T0 + _RATED_DELAY
    /\ rc_monitored = <<>>
    /\ ~Running(rc_mon)
    /\ coord_pc["RatingChangesCache"] = "waiting"

=============================================================================
